---- MODULE Spec2Model ----
(***************************************************************************)
(* traycer-lite (src/src/index.ts): a command-line tool that turns a       *)
(* prompt into a plan and a code snippet, offline from templates or from   *)
(* one optional remote completion, and optionally saves the code.          *)
(*                                                                         *)
(* A JavaScript string is modelled as a sequence of one-character strings, *)
(* so that regular-expression tests, slicing, trimming and case mapping    *)
(* are computed on the characters as the source computes them.             *)
(***************************************************************************)
EXTENDS Integers, Sequences, FiniteSets, TLC

VARIABLES
    pc,        \* per process: position in main()
    argv,      \* per process: process.argv.slice(2)
    env,       \* per process: is HUGGINGFACE_API_KEY set (non-empty)
    flags,     \* per process: Flags returned by parseArgs
    prompt,    \* per process: prompt returned by parseArgs
    result,    \* per process: main's `result` (null or a PlanAndCode)
    stdout,    \* per process: what console.log printed, in order
    stderr,    \* per process: what console.warn printed, in order
    exitCode,  \* per process: process.exitCode (0 when never set)
    fetches,   \* per process: requests issued to the inference endpoint
    reply,     \* per process: how the awaited request settled (null before)
    fs,        \* per process: the file system the process sees (path -> text)
    runs,      \* per process: invocations made so far
    argvIn,    \* token list handed to parseArgs on its own
    parsed,    \* what parseArgs returned for argvIn
    promptIn,  \* prompt handed to the offline path on its own
    offline    \* what the offline path computed for promptIn

procVars == <<pc, argv, env, flags, prompt, result, stdout, stderr, exitCode, fetches, reply, fs, runs>>
argVars == <<argvIn, parsed>>
promptVars == <<promptIn, offline>>
vars == <<procVars, argVars, promptVars>>

----------------------------------------------------------------------------
\* Bounds of the model.

\* longest token list handed to parseArgs on its own
MaxArgs == 4
\* most words of a prompt handed to the offline path on its own
MaxWords == 2
\* most invocations of the tool by one process owner
MaxRuns == 2

----------------------------------------------------------------------------
\* Characters and strings.

LowerAlpha == <<"a", "b", "c", "d", "e", "f", "g", "h", "i", "j", "k", "l", "m", "n", "o", "p", "q", "r", "s", "t", "u", "v", "w", "x", "y", "z">>
UpperAlpha == <<"A", "B", "C", "D", "E", "F", "G", "H", "I", "J", "K", "L", "M", "N", "O", "P", "Q", "R", "S", "T", "U", "V", "W", "X", "Y", "Z">>
Digits == {"0", "1", "2", "3", "4", "5", "6", "7", "8", "9"}
\* the characters \s matches and trim() strips, among those the model uses
WhiteSpace == {" ", "\t", "\n"}

Range(f) == {f[i] : i \in DOMAIN f}
SetMin(S) == CHOOSE x \in S : \A y \in S : x <= y
SetMax(S) == CHOOSE x \in S : \A y \in S : x >= y

toLowerChar(c) ==
    IF \E i \in DOMAIN UpperAlpha : UpperAlpha[i] = c
    THEN LowerAlpha[CHOOSE i \in DOMAIN UpperAlpha : UpperAlpha[i] = c]
    ELSE c
toUpperChar(c) ==
    IF \E i \in DOMAIN LowerAlpha : LowerAlpha[i] = c
    THEN UpperAlpha[CHOOSE i \in DOMAIN LowerAlpha : LowerAlpha[i] = c]
    ELSE c
toLowerCase(s) == [i \in 1..Len(s) |-> toLowerChar(s[i])]

\* s.slice(from) with a 0-based from, as in arg.slice(6) and w.slice(1)
slice(s, from) == SubSeq(s, from + 1, Len(s))
\* s.slice(0, n)
sliceTo(s, n) == SubSeq(s, 1, IF Len(s) < n THEN Len(s) ELSE n)
startsWith(s, pre) == Len(s) >= Len(pre) /\ SubSeq(s, 1, Len(pre)) = pre
\* does `sub` occur at 1-based position i of s
occursAt(s, sub, i) == i >= 1 /\ i + Len(sub) - 1 <= Len(s) /\ SubSeq(s, i, i + Len(sub) - 1) = sub
\* /sub/.test(s) for a literal pattern
test(sub, s) == \E i \in 1..Len(s) : occursAt(s, sub, i)
\* /(a|b|...)/.test(s) for literal alternatives
testAny(subs, s) == \E sub \in subs : test(sub, s)
trim(s) ==
    LET keep == {i \in 1..Len(s) : s[i] \notin WhiteSpace}
    IN  IF keep = {} THEN <<>> ELSE SubSeq(s, SetMin(keep), SetMax(keep))
RECURSIVE join(_, _)
join(parts, sep) ==
    IF parts = <<>> THEN <<>>
    ELSE IF Len(parts) = 1 THEN parts[1]
    ELSE parts[1] \o sep \o join(Tail(parts), sep)

----------------------------------------------------------------------------
\* parseArgs (index.ts 18-32).

tok_ai == <<"-", "-", "a", "i">>
tok_json == <<"-", "-", "j", "s", "o", "n">>
tok_help == <<"-", "-", "h", "e", "l", "p">>
tok_h == <<"-", "h">>
tok_version == <<"-", "-", "v", "e", "r", "s", "i", "o", "n">>
tok_v == <<"-", "v">>
tok_out == <<"-", "-", "o", "u", "t">>
tok_outEq == <<"-", "-", "o", "u", "t", "=">>
dashdash == <<"-", "-">>

\* Flags.out is optional: undefined until an --out form sets it.
Undefined == [defined |-> FALSE, value |-> <<>>]
Defined(s) == [defined |-> TRUE, value |-> s]
\* JavaScript truthiness of an optional string: defined and not ""
truthy(o) == o.defined /\ o.value # <<>>

flags0 == [ai |-> FALSE, json |-> FALSE, help |-> FALSE, version |-> FALSE, out |-> Undefined]

\* a bare --out that takes any next token, "--"-led ones too
takesPath_anyNext(args, i) == i + 1 <= Len(args) /\ args[i + 1] # <<>>

\* does a bare --out at position i take argv[i + 1] as its path (line 27)
takesPath(args, i) ==
    /\ i + 1 <= Len(args)
    /\ args[i + 1] # <<>>
    /\ ~startsWith(args[i + 1], dashdash)

\* the for loop of lines 21-30, from 1-based position i on
RECURSIVE parseLoop(_, _, _, _)
parseLoop(args, i, fl, rest) ==
    IF i > Len(args) THEN [flags |-> fl, rest |-> rest]
    ELSE LET arg == args[i] IN
         IF arg = tok_ai THEN parseLoop(args, i + 1, [fl EXCEPT !.ai = TRUE], rest)
         ELSE IF arg = tok_json THEN parseLoop(args, i + 1, [fl EXCEPT !.json = TRUE], rest)
         ELSE IF arg = tok_help \/ arg = tok_h THEN parseLoop(args, i + 1, [fl EXCEPT !.help = TRUE], rest)
         ELSE IF arg = tok_version \/ arg = tok_v THEN parseLoop(args, i + 1, [fl EXCEPT !.version = TRUE], rest)
         ELSE IF arg = tok_out /\ takesPath(args, i)
              THEN parseLoop(args, i + 2, [fl EXCEPT !.out = Defined(args[i + 1])], rest)
         ELSE IF startsWith(arg, tok_outEq)
              THEN parseLoop(args, i + 1, [fl EXCEPT !.out = Defined(slice(arg, 6))], rest)
         ELSE parseLoop(args, i + 1, fl, Append(rest, arg))

parseArgs(args) ==
    LET r == parseLoop(args, 1, flags0, <<>>)
    IN  [flags |-> r.flags, prompt |-> trim(join(r.rest, <<" ">>))]

----------------------------------------------------------------------------
\* Literal patterns of the classifier, the name inferencer and the templates.

kw_function == <<"f", "u", "n", "c", "t", "i", "o", "n">>
kw_check == <<"c", "h", "e", "c", "k">>
kw_compute == <<"c", "o", "m", "p", "u", "t", "e">>
kw_calculate == <<"c", "a", "l", "c", "u", "l", "a", "t", "e">>
kw_determine == <<"d", "e", "t", "e", "r", "m", "i", "n", "e">>
kw_find == <<"f", "i", "n", "d">>
kw_prime == <<"p", "r", "i", "m", "e">>
kw_factorial == <<"f", "a", "c", "t", "o", "r", "i", "a", "l">>
kw_fibonacci == <<"f", "i", "b", "o", "n", "a", "c", "c", "i">>
kw_reverse == <<"r", "e", "v", "e", "r", "s", "e">>
kw_react == <<"r", "e", "a", "c", "t">>
kw_component == <<"c", "o", "m", "p", "o", "n", "e", "n", "t">>
kw_jsx == <<"j", "s", "x">>
kw_tsx == <<"t", "s", "x">>
kw_endpoint == <<"e", "n", "d", "p", "o", "i", "n", "t">>
kw_api == <<"a", "p", "i">>
kw_http == <<"h", "t", "t", "p">>
kw_express == <<"e", "x", "p", "r", "e", "s", "s">>
kw_fetch == <<"f", "e", "t", "c", "h">>
kw_script == <<"s", "c", "r", "i", "p", "t">>
kw_cli == <<"c", "l", "i">>
kw_command == <<"c", "o", "m", "m", "a", "n", "d">>
kw_utility == <<"u", "t", "i", "l", "i", "t", "y">>
kw_fib == <<"f", "i", "b">>
kw_debounce == <<"d", "e", "b", "o", "u", "n", "c", "e">>
kw_throttle == <<"t", "h", "r", "o", "t", "t", "l", "e">>
kw_string == <<"s", "t", "r", "i", "n", "g">>
kw_called == <<"c", "a", "l", "l", "e", "d">>
kw_named == <<"n", "a", "m", "e", "d">>

name_reverseString == <<"r", "e", "v", "e", "r", "s", "e", "S", "t", "r", "i", "n", "g">>
name_fibonacci == <<"f", "i", "b", "o", "n", "a", "c", "c", "i">>
name_factorial == <<"f", "a", "c", "t", "o", "r", "i", "a", "l">>
name_debounce == <<"d", "e", "b", "o", "u", "n", "c", "e">>
name_throttle == <<"t", "h", "r", "o", "t", "t", "l", "e">>
name_isPrime == <<"i", "s", "P", "r", "i", "m", "e">>
name_MyComponent == <<"M", "y", "C", "o", "m", "p", "o", "n", "e", "n", "t">>
name_doWork == <<"d", "o", "W", "o", "r", "k">>

----------------------------------------------------------------------------
\* guessType (index.ts 41-53).

\* a classifier that tries the component rule before the function rule
guessType_componentFirst(p0) ==
    LET p == toLowerCase(p0) IN
    IF testAny({kw_react, kw_component, kw_jsx, kw_tsx}, p) THEN "component"
    ELSE IF test(kw_function, p)
            \/ testAny({kw_check, kw_compute, kw_calculate, kw_determine, kw_find,
                        kw_prime, kw_factorial, kw_fibonacci, kw_reverse}, p)
    THEN "function"
    ELSE IF testAny({kw_endpoint, kw_api, kw_http, kw_express, kw_fetch}, p) THEN "api"
    ELSE IF testAny({kw_script, kw_cli, kw_command, kw_utility}, p) THEN "script"
    ELSE "function"

guessType(p0) ==
    LET p == toLowerCase(p0) IN
    IF test(kw_function, p)
       \/ testAny({kw_check, kw_compute, kw_calculate, kw_determine, kw_find,
                   kw_prime, kw_factorial, kw_fibonacci, kw_reverse}, p)
    THEN "function"
    ELSE IF testAny({kw_react, kw_component, kw_jsx, kw_tsx}, p) THEN "component"
    ELSE IF testAny({kw_endpoint, kw_api, kw_http, kw_express, kw_fetch}, p) THEN "api"
    ELSE IF testAny({kw_script, kw_cli, kw_command, kw_utility}, p) THEN "script"
    ELSE "function"

----------------------------------------------------------------------------
\* toCamelCase (index.ts 55-62).

isAlpha(c) == c \in Range(LowerAlpha) \cup Range(UpperAlpha)
isAlnum(c) == isAlpha(c) \/ c \in Digits

\* .replace(/[^a-zA-Z0-9 ]/g, ' ')
replaceNonAlnum(s) == [i \in 1..Len(s) |-> IF isAlnum(s[i]) \/ s[i] = " " THEN s[i] ELSE " "]

\* first 1-based position >= j that holds no white space, or holds white space;
\* Len(s) + 1 if there is none
firstNonSpace(s, j) == SetMin({k \in j..(Len(s) + 1) : k = Len(s) + 1 \/ s[k] \notin WhiteSpace})
firstSpace(s, j) == SetMin({k \in j..(Len(s) + 1) : k = Len(s) + 1 \/ s[k] \in WhiteSpace})

\* .split(/\s+/).filter(Boolean): the maximal runs of non-whitespace
RECURSIVE splitWords(_)
splitWords(s) ==
    LET b == firstNonSpace(s, 1) IN
    IF b > Len(s) THEN <<>>
    ELSE LET e == firstSpace(s, b)
         IN  <<SubSeq(s, b, e - 1)>> \o splitWords(SubSeq(s, e, Len(s)))

\* the .map callback of line 60
camelWord(w, i) ==
    IF i = 1 THEN toLowerCase(w)
    ELSE <<toUpperChar(w[1])>> \o toLowerCase(slice(w, 1))

toCamelCase(input) ==
    LET ws == splitWords(replaceNonAlnum(input))
    IN  join([i \in 1..Len(ws) |-> camelWord(ws[i], i)], <<>>)

----------------------------------------------------------------------------
\* guessName (index.ts 64-77).

isIdentStart(c) == isAlpha(c) \/ c = "_"
isIdentChar(c) == isAlnum(c) \/ c = "_"
\* first 1-based position >= j that holds no identifier character, Len(s) + 1 if none
firstNonIdent(s, j) == SetMin({k \in j..(Len(s) + 1) : k = Len(s) + 1 \/ ~isIdentChar(s[k])})

\* does /kw\s+([a-zA-Z_][a-zA-Z0-9_]*)/ match with kw at position i
matchesAt(s, kw, i) ==
    /\ occursAt(s, kw, i)
    /\ i + Len(kw) <= Len(s)
    /\ s[i + Len(kw)] \in WhiteSpace
    /\ LET k == firstNonSpace(s, i + Len(kw))
       IN  k <= Len(s) /\ isIdentStart(s[k])
\* the group that match captures: the longest identifier after the whitespace
captureAt(s, kw, i) ==
    LET k == firstNonSpace(s, i + Len(kw))
    IN  SubSeq(s, k, firstNonIdent(s, k) - 1)
\* /(?:kw1|kw2|...)\s+(identifier)/.exec(s): group 1 of the leftmost match, or null
execName(kws, s) ==
    LET hits == {i \in 1..Len(s) : \E kw \in kws : matchesAt(s, kw, i)} IN
    IF hits = {} THEN Undefined
    ELSE LET i == SetMin(hits)
             kw == CHOOSE k \in kws : matchesAt(s, k, i)
         IN  Defined(captureAt(s, kw, i))

MaxNameLen == 24

\* a name inferencer that tries the keyword overrides before the explicit patterns
guessName_overridesFirst(p, type) ==
    LET mFn == execName({kw_function}, p)
        mName == execName({kw_called, kw_named}, p)
        camel == sliceTo(toCamelCase(p), MaxNameLen)
        base == IF camel # <<>> THEN camel
                ELSE IF type = "component" THEN name_MyComponent ELSE name_doWork
        lower == toLowerCase(p)
    IN  IF test(kw_reverse, lower) THEN name_reverseString
        ELSE IF testAny({kw_fibonacci, kw_fib}, lower) THEN name_fibonacci
        ELSE IF test(kw_factorial, lower) THEN name_factorial
        ELSE IF test(kw_debounce, lower) THEN name_debounce
        ELSE IF test(kw_throttle, lower) THEN name_throttle
        ELSE IF test(kw_prime, lower) THEN name_isPrime
        ELSE IF mFn.defined THEN mFn.value
        ELSE IF mName.defined THEN mName.value
        ELSE base

guessName(p, type) ==
    LET mFn == execName({kw_function}, p)
        mName == execName({kw_called, kw_named}, p)
        camel == sliceTo(toCamelCase(p), MaxNameLen)
        base == IF camel # <<>> THEN camel
                ELSE IF type = "component" THEN name_MyComponent ELSE name_doWork
        lower == toLowerCase(p)
    IN  IF mFn.defined THEN mFn.value
        ELSE IF mName.defined THEN mName.value
        ELSE IF test(kw_reverse, lower) THEN name_reverseString
        ELSE IF testAny({kw_fibonacci, kw_fib}, lower) THEN name_fibonacci
        ELSE IF test(kw_factorial, lower) THEN name_factorial
        ELSE IF test(kw_debounce, lower) THEN name_debounce
        ELSE IF test(kw_throttle, lower) THEN name_throttle
        ELSE IF test(kw_prime, lower) THEN name_isPrime
        ELSE base

----------------------------------------------------------------------------
\* Values. A template literal `head${arg}tail` is kept in its three pieces; a
\* JavaScript value is a record tagged with its type.

Template(head, arg, tail) == [head |-> head, arg |-> arg, tail |-> tail]
Lit(s) == Template(s, <<>>, "")
Str(t) == [kind |-> "string", text |-> t]
Num(n) == [kind |-> "number", num |-> n]
Arr(elems) == [kind |-> "array", elems |-> elems]
Missing == [kind |-> "undefined"]
Null == [kind |-> "null"]
PlanAndCode(plan, code) == [kind |-> "object", plan |-> plan, code |-> code]

----------------------------------------------------------------------------
\* makePlan (index.ts 79-93).

makePlan(p, type, name) ==
    <<Str(Template("Restate goal: ", p, "")),
      Str(Lit("Identify inputs and outputs.")),
      Str(Lit("List edge cases and constraints."))>>
    \o (IF type = "function" THEN <<Str(Lit("Design function signature and return type."))>> ELSE <<>>)
    \o (IF type = "component" THEN <<Str(Lit("Sketch props and state; plan rendering."))>> ELSE <<>>)
    \o (IF type = "api" THEN <<Str(Lit("Define route, method, request/response schema, and errors."))>> ELSE <<>>)
    \o (IF type = "script" THEN <<Str(Lit("Define CLI flags, usage, and I/O."))>> ELSE <<>>)
    \o <<Str(Lit("Outline algorithm in small steps.")),
         Str(Lit("Write code with clear comments.")),
         Str(Lit("Add basic tests or examples.")),
         Str(Lit("Validate on edge cases."))>>

----------------------------------------------------------------------------
\* The code templates (index.ts 95-125): the text after the interpolated name,
\* or the whole text where the name is not interpolated.

exportFunction == "export function "
componentHead == "import React, { useState } from 'react';\n\nexport function "
primeBody == "(n: number): boolean {\n  if (!Number.isInteger(n) || n < 2) return false;\n  for (let i = 2; i * i <= n; i++) {\n    if (n % i === 0) return false;\n  }\n  return true;\n}\n"
fibonacciBody == "(n: number): number {\n  if (!Number.isInteger(n) || n < 0) throw new Error('n must be a non-negative integer');\n  if (n <= 1) return n;\n  let a = 0, b = 1;\n  for (let i = 2; i <= n; i++) {\n    const next = a + b;\n    a = b;\n    b = next;\n  }\n  return b;\n}\n"
factorialBody == "(n: number): number {\n  if (!Number.isInteger(n) || n < 0) throw new Error('n must be a non-negative integer');\n  let acc = 1;\n  for (let i = 2; i <= n; i++) acc *= i;\n  return acc;\n}\n"
reverseBody == "(s: string): string {\n  return Array.from(s).reverse().join('');\n}\n"
debounceBody == "<T extends (...args: any[]) => any>(fn: T, wait: number) {\n  let t: NodeJS.Timeout | null = null;\n  return (...args: Parameters<T>) => {\n    if (t) clearTimeout(t);\n    t = setTimeout(() => fn(...args), wait);\n  };\n}\n"
stubBody == "(/* params */): any {\n  throw new Error('Not implemented');\n}\n"
componentBody == "() {\n  const [value, setValue] = useState('');\n  return (\n    <div style={{ fontFamily: 'system-ui', padding: 12 }}>\n      <label>\n        <span>Value:</span>\n        <input value={value} onChange={e => setValue(e.target.value)} />\n      </label>\n      <pre>Current: {value}</pre>\n    </div>\n  );\n}\n"
apiBody == "import http from 'node:http';\n\nconst server = http.createServer((req, res) => {\n  if (req.method === 'GET' && req.url === '/health') {\n    res.writeHead(200, { 'Content-Type': 'application/json' });\n    res.end(JSON.stringify({ ok: true }));\n    return;\n  }\n  res.writeHead(404);\n  res.end();\n});\n\nserver.listen(3000, () => {\n  console.log('API listening on http://localhost:3000');\n});\n"
scriptBody == "#!/usr/bin/env node\nconst args = process.argv.slice(2);\nif (args.length === 0) {\n  console.log('Usage: my-cli <text>');\n  process.exit(1);\n}\nconsole.log('You said:', args.join(' '));\n"

\* a template selector that tries fibonacci|fib before prime
codeTemplateFunction_fibFirst(name, p0) ==
    LET p == toLowerCase(p0) IN
    IF testAny({kw_fibonacci, kw_fib}, p) THEN Template(exportFunction, name, fibonacciBody)
    ELSE IF test(kw_prime, p) THEN Template(exportFunction, name, primeBody)
    ELSE IF test(kw_factorial, p) THEN Template(exportFunction, name, factorialBody)
    ELSE IF test(kw_reverse, p) /\ test(kw_string, p) THEN Template(exportFunction, name, reverseBody)
    ELSE IF test(kw_debounce, p) THEN Template(exportFunction, name, debounceBody)
    ELSE Template(exportFunction, name, stubBody)

codeTemplateFunction(name, p0) ==
    LET p == toLowerCase(p0) IN
    IF test(kw_prime, p) THEN Template(exportFunction, name, primeBody)
    ELSE IF testAny({kw_fibonacci, kw_fib}, p) THEN Template(exportFunction, name, fibonacciBody)
    ELSE IF test(kw_factorial, p) THEN Template(exportFunction, name, factorialBody)
    ELSE IF test(kw_reverse, p) /\ test(kw_string, p) THEN Template(exportFunction, name, reverseBody)
    ELSE IF test(kw_debounce, p) THEN Template(exportFunction, name, debounceBody)
    ELSE Template(exportFunction, name, stubBody)

codeTemplateComponent(name, p) == Template(componentHead, name, componentBody)
codeTemplateAPI(name, p) == Lit(apiBody)
codeTemplateScript(name, p) == Lit(scriptBody)

----------------------------------------------------------------------------
\* makeOfflinePlanAndCode (index.ts 127-139).

makeOfflinePlanAndCode(p) ==
    LET type == guessType(p)
        name == guessName(p, type)
        plan == makePlan(p, type, name)
        code == CASE type = "function" -> codeTemplateFunction(name, p)
                  [] type = "component" -> codeTemplateComponent(name, p)
                  [] type = "api" -> codeTemplateAPI(name, p)
                  [] type = "script" -> codeTemplateScript(name, p)
    IN  PlanAndCode(Arr(plan), Str(code))

----------------------------------------------------------------------------
\* maybeAIPlanAndCode (index.ts 141-168).
\*
\* The reply to the one request is what the code can observe of it: the fetch
\* rejects, or the body is not JSON, or the body is JSON `data`.  Of `data` the
\* code reads whether it is an array and the generated_text of data[0] (array)
\* or of data itself (object).  Of a generated text it reads whether
\* /\{[\s\S]*\}/ finds a span, whether JSON.parse accepts the span, and the
\* plan and code fields of the object parsed.

Gen(span, obj) == [kind |-> "string", empty |-> FALSE, span |-> span, obj |-> obj]
GenEmpty == [kind |-> "string", empty |-> TRUE, span |-> "none", obj |-> Null]
Body(kind, gen) == [kind |-> kind, generated_text |-> gen]
Rejected == [how |-> "rejected"]
NotJson == [how |-> "notJson"]
Json(data) == [how |-> "json", data |-> data]

\* JavaScript truthiness of what a generated_text field can hold
truthyValue(v) ==
    CASE v.kind = "undefined" -> FALSE
      [] v.kind = "null" -> FALSE
      [] v.kind = "number" -> v.num # 0
      [] v.kind = "string" -> ~v.empty
      [] OTHER -> TRUE

\* a key test that always passes
keyPresent_always(e) == TRUE

\* line 143: is the key set (an empty key counts as unset)
keyPresent(e) == e

\* lines 156-158: the `text` picked out of the body
pickText(data) ==
    IF data.kind = "array" /\ truthyValue(data.generated_text) THEN data.generated_text
    ELSE IF data.kind = "object" /\ data.generated_text.kind = "string" THEN data.generated_text
    ELSE Null

\* line 163: the shape test on the parsed object
shapeOk(obj) == obj.plan.kind = "array" /\ obj.code.kind = "string"

\* lines 155-167, once the request has settled as `r`; an exception thrown
\* anywhere (rejected fetch, resp.json(), text.match on a non-string,
\* JSON.parse) lands in the catch and gives null
settle(r) ==
    IF r.how # "json" THEN Null
    ELSE LET text == pickText(r.data) IN
         IF ~truthyValue(text) THEN Null
         ELSE IF text.kind # "string" THEN Null
         ELSE IF text.span = "none" THEN Null
         ELSE IF text.span = "invalid" THEN Null
         ELSE IF ~shapeOk(text.obj) THEN Null
         ELSE text.obj

----------------------------------------------------------------------------
\* The file system and path resolution (node:fs, node:path as main uses them).

Cwd == <<"/", "w">>
\* resolve(process.cwd(), p) for a path without . or .. segments
resolve(cwd, p) == IF startsWith(p, <<"/">>) THEN p ELSE cwd \o <<"/">> \o p
NoFiles == [p \in {} |-> Lit("")]
existsSync(files, p) == p \in DOMAIN files
\* a write that leaves an existing file as it is
writeFileSync_keepExisting(files, p, data) ==
    [q \in DOMAIN files \cup {p} |-> IF q \in DOMAIN files THEN files[q] ELSE data]
writeFileSync(files, p, data) == [q \in DOMAIN files \cup {p} |-> IF q = p THEN data ELSE files[q]]

----------------------------------------------------------------------------
\* main (index.ts 170-196), one process w.  The code between two suspension
\* points runs without interleaving; pc names the statement main is at.

versionLine == [line |-> "version", text |-> Lit("traycer-lite v0.1.0")]
usageLine == [line |-> "usage"]

\* early exits with the usage test before the version test
earlyExit_usageFirst(fl, p) ==
    IF fl.help \/ p = <<>> THEN "usage"
    ELSE IF fl.version THEN "version"
    ELSE "none"

\* lines 172-173: which early exit main takes, if any
earlyExit(fl, p) ==
    IF fl.version THEN "version"
    ELSE IF fl.help \/ p = <<>> THEN "usage"
    ELSE "none"

\* lines 171-176: parse, the early exits, and maybeAIPlanAndCode up to its await
MainBegin(w) ==
    /\ pc[w] = "main"
    /\ LET pa == parseArgs(argv[w])
           exit == earlyExit(pa.flags, pa.prompt)
       IN
       /\ flags' = [flags EXCEPT ![w] = pa.flags]
       /\ prompt' = [prompt EXCEPT ![w] = pa.prompt]
       /\ IF exit = "version"
          THEN /\ stdout' = [stdout EXCEPT ![w] = Append(@, versionLine)]
               /\ pc' = [pc EXCEPT ![w] = "exited"]
               /\ UNCHANGED <<exitCode, fetches>>
          ELSE IF exit = "usage"
          THEN /\ stdout' = [stdout EXCEPT ![w] = Append(@, usageLine)]
               /\ exitCode' = [exitCode EXCEPT ![w] = IF pa.prompt = <<>> THEN 1 ELSE @]
               /\ pc' = [pc EXCEPT ![w] = "exited"]
               /\ UNCHANGED fetches
          ELSE IF pa.flags.ai /\ keyPresent(env[w])
          THEN /\ fetches' = [fetches EXCEPT ![w] = @ + 1]
               /\ pc' = [pc EXCEPT ![w] = "awaitFetch"]
               /\ UNCHANGED <<stdout, exitCode>>
          ELSE /\ pc' = [pc EXCEPT ![w] = "fallback"]
               /\ UNCHANGED <<stdout, exitCode, fetches>>
    /\ UNCHANGED <<argv, env, result, stderr, reply, fs, runs, argVars, promptVars>>

\* the awaited request settles as r; lines 155-167 and the assignment of line 176
Settle(w, r) ==
    /\ pc[w] = "awaitFetch"
    /\ reply' = [reply EXCEPT ![w] = r]
    /\ result' = [result EXCEPT ![w] = settle(r)]
    /\ pc' = [pc EXCEPT ![w] = "fallback"]
    /\ UNCHANGED <<argv, env, flags, prompt, stdout, stderr, exitCode, fetches, fs, runs, argVars, promptVars>>

\* line 177
Fallback(w) ==
    /\ pc[w] = "fallback"
    /\ result' = [result EXCEPT ![w] = IF @ = Null THEN makeOfflinePlanAndCode(prompt[w]) ELSE @]
    /\ pc' = [pc EXCEPT ![w] = "render"]
    /\ UNCHANGED <<argv, env, flags, prompt, stdout, stderr, exitCode, fetches, reply, fs, runs, argVars, promptVars>>

\* lines 179-186: what the console shows of a result
rendering(fl, res) ==
    IF fl.json THEN <<[line |-> "json", value |-> res]>>
    ELSE <<[line |-> "Planning Layer"]>>
         \o [i \in 1..Len(res.plan.elems) |-> [line |-> "step", n |-> i, value |-> res.plan.elems[i]]]
         \o <<[line |-> "Final Code"], [line |-> "code", value |-> res.code]>>

Render(w) ==
    /\ pc[w] = "render"
    /\ stdout' = [stdout EXCEPT ![w] = @ \o rendering(flags[w], result[w])]
    /\ pc' = [pc EXCEPT ![w] = "save"]
    /\ UNCHANGED <<argv, env, flags, prompt, result, stderr, exitCode, fetches, reply, fs, runs, argVars, promptVars>>

\* lines 188-195, then main returns
Save(w) ==
    /\ pc[w] = "save"
    /\ IF truthy(flags[w].out)
       THEN LET outPath == resolve(Cwd, flags[w].out.value) IN
            /\ stderr' = [stderr EXCEPT ![w] =
                   IF existsSync(fs[w], outPath) THEN Append(@, [line |-> "exists", path |-> outPath]) ELSE @]
            /\ fs' = [fs EXCEPT ![w] = writeFileSync(@, outPath, result[w].code.text)]
            /\ stdout' = [stdout EXCEPT ![w] = Append(@, [line |-> "saved", path |-> outPath])]
       ELSE UNCHANGED <<stderr, fs, stdout>>
    /\ pc' = [pc EXCEPT ![w] = "exited"]
    /\ UNCHANGED <<argv, env, flags, prompt, result, exitCode, fetches, reply, runs, argVars, promptVars>>

\* the user starts the tool: a fresh process with arguments a and environment e
Invoke(w, a, e) ==
    /\ pc[w] \in {"idle", "exited"}
    /\ runs[w] < MaxRuns
    /\ runs' = [runs EXCEPT ![w] = @ + 1]
    /\ argv' = [argv EXCEPT ![w] = a]
    /\ env' = [env EXCEPT ![w] = e]
    /\ pc' = [pc EXCEPT ![w] = "main"]
    /\ flags' = [flags EXCEPT ![w] = flags0]
    /\ prompt' = [prompt EXCEPT ![w] = <<>>]
    /\ result' = [result EXCEPT ![w] = Null]
    /\ stdout' = [stdout EXCEPT ![w] = <<>>]
    /\ stderr' = [stderr EXCEPT ![w] = <<>>]
    /\ exitCode' = [exitCode EXCEPT ![w] = 0]
    /\ fetches' = [fetches EXCEPT ![w] = 0]
    /\ reply' = [reply EXCEPT ![w] = Null]
    /\ UNCHANGED <<fs, argVars, promptVars>>

----------------------------------------------------------------------------
\* Inputs the specifications draw from.

tok_outEqFile == <<"-", "-", "o", "u", "t", "=", "f", ".", "t", "s">>
tok_unknown == <<"-", "-", "f", "a", "s", "t">>
tok_file == <<"f", ".", "t", "s">>
tok_padded == <<" ", "s", "o", "r", "t", " ">>
w_function == <<"f", "u", "n", "c", "t", "i", "o", "n">>
w_called == <<"c", "a", "l", "l", "e", "d">>
w_named == <<"n", "a", "m", "e", "d">>
w_foo == <<"f", "o", "o">>
w_Primes == <<"P", "r", "i", "m", "e", "s">>
w_fib == <<"f", "i", "b">>
w_factorial == <<"f", "a", "c", "t", "o", "r", "i", "a", "l">>
w_reverse == <<"r", "e", "v", "e", "r", "s", "e">>
w_string == <<"s", "t", "r", "i", "n", "g">>
w_debounce == <<"d", "e", "b", "o", "u", "n", "c", "e">>
w_throttle == <<"t", "h", "r", "o", "t", "t", "l", "e">>
w_react == <<"r", "e", "a", "c", "t">>
w_api == <<"a", "p", "i">>
w_typescript == <<"T", "y", "p", "e", "S", "c", "r", "i", "p", "t">>
w_hello == <<"h", "e", "l", "l", "o">>
w_bang == <<"!">>

\* tokens for parseArgs: every recognised flag form, an unknown flag, a file
\* name, an empty token and a token quoted with blanks around it
ArgTokens ==
    {tok_ai, tok_json, tok_help, tok_h, tok_version, tok_v, tok_out, tok_outEqFile,
     tok_unknown, tok_file, <<>>, tok_padded}
\* words for prompts: pattern words, keywords of every rule (two of them inside
\* a longer or capitalised word), a word no rule knows, and punctuation
PromptWords ==
    {w_function, w_called, w_named, w_foo, w_Primes, w_fib, w_factorial, w_reverse,
     w_string, w_debounce, w_throttle, w_react, w_api, w_typescript, w_hello, w_bang}

SeqsOf(S, lo, hi) == UNION {[1..k -> S] : k \in lo..hi}
ArgLists == SeqsOf(ArgTokens, 0, MaxArgs)
Prompts == {join(ws, <<" ">>) : ws \in SeqsOf(PromptWords, 1, MaxWords)}

Proc == {1, 2}

\* arguments of a run: any set of the boolean flags, an --out form or none,
\* then the prompt tokens (none; the README's example, quoted; short prompts)
examplePrompt == <<"w", "r", "i", "t", "e", " ", "a", " ", "f", "u", "n", "c", "t", "i", "o", "n", " ", "t", "o", " ", "c", "h", "e", "c", "k", " ", "p", "r", "i", "m", "e", " ", "n", "u", "m", "b", "e", "r", "s">>
w_a == <<"a">>
flagTokens(S) ==
    (IF "ai" \in S THEN <<tok_ai>> ELSE <<>>)
    \o (IF "json" \in S THEN <<tok_json>> ELSE <<>>)
    \o (IF "help" \in S THEN <<tok_h>> ELSE <<>>)
    \o (IF "version" \in S THEN <<tok_v>> ELSE <<>>)
OutForms == {<<>>, <<tok_out, tok_file>>, <<tok_outEqFile>>}
RunPrompts == {<<>>, <<examplePrompt>>, <<w_reverse, w_a, w_string>>, <<w_react, w_hello>>, <<w_hello>>}
RunArgs ==
    {flagTokens(S) \o o \o p : S \in SUBSET {"ai", "json", "help", "version"}, o \in OutForms, p \in RunPrompts}

\* how the request can settle
ReplyPlans ==
    {Missing, Str(Lit("think")), Arr(<<>>), Arr(<<Str(Lit("remote step"))>>),
     Arr(<<Str(Lit("remote step")), Num(2)>>)}
ReplyCodes == {Missing, Num(1), Str(Lit("remote code"))}
GenTexts ==
    {Gen("none", Null), Gen("invalid", Null)}
    \cup {Gen("object", PlanAndCode(p, c)) : p \in ReplyPlans, c \in ReplyCodes}
GenValues == {Missing, Num(1), GenEmpty} \cup GenTexts
Replies ==
    {Rejected, NotJson, Json(Null)}
    \cup {Json(Body(k, g)) : k \in {"array", "object"}, g \in GenValues}


----------------------------------------------------------------------------
\* Initial states.

ProcsIdle ==
    /\ pc = [w \in Proc |-> "idle"]
    /\ argv = [w \in Proc |-> <<>>]
    /\ env = [w \in Proc |-> FALSE]
    /\ flags = [w \in Proc |-> flags0]
    /\ prompt = [w \in Proc |-> <<>>]
    /\ result = [w \in Proc |-> Null]
    /\ stdout = [w \in Proc |-> <<>>]
    /\ stderr = [w \in Proc |-> <<>>]
    /\ exitCode = [w \in Proc |-> 0]
    /\ fetches = [w \in Proc |-> 0]
    /\ reply = [w \in Proc |-> Null]
    /\ fs = [w \in Proc |-> NoFiles]
    /\ runs = [w \in Proc |-> 0]
NoArgsCall == argvIn = <<>> /\ parsed = Null
NoPromptCall == promptIn = <<>> /\ offline = Null

----------------------------------------------------------------------------
\* parseArgs on its own: one call on a drawn token list.

InitParseArgs == ProcsIdle /\ NoPromptCall /\ argvIn \in ArgLists /\ parsed = Null
CallParseArgs ==
    /\ parsed = Null
    /\ parsed' = parseArgs(argvIn)
    /\ UNCHANGED <<argvIn, procVars, promptVars>>
SpecParseArgs == InitParseArgs /\ [][CallParseArgs]_vars

----------------------------------------------------------------------------
\* The offline path on its own: one call on a drawn prompt.

InitOffline == ProcsIdle /\ NoArgsCall /\ promptIn \in Prompts /\ offline = Null
CallOffline ==
    /\ offline = Null
    /\ offline' = [type |-> guessType(promptIn),
                   name |-> guessName(promptIn, guessType(promptIn)),
                   result |-> makeOfflinePlanAndCode(promptIn)]
    /\ UNCHANGED <<promptIn, procVars, argVars>>
SpecOffline == InitOffline /\ [][CallOffline]_vars

----------------------------------------------------------------------------
\* The tool as its user runs it: process 1 is invoked up to MaxRuns times, one
\* invocation after the other, on a file system that starts without the
\* output file and keeps what earlier runs wrote.

Init == ProcsIdle /\ NoArgsCall /\ NoPromptCall
Next ==
    \/ \E a \in RunArgs, e \in BOOLEAN : Invoke(1, a, e)
    \/ MainBegin(1)
    \/ \E r \in Replies : Settle(1, r)
    \/ Fallback(1)
    \/ Render(1)
    \/ Save(1)
Spec == Init /\ [][Next]_vars

----------------------------------------------------------------------------
\* Two runs side by side, each on its own copy of the same file system and
\* with the same environment: process 1 without --ai, process 2 with --ai put
\* before the same arguments.

oldFile == Lit("// written before the run\n")
FilesBefore == {NoFiles, writeFileSync(NoFiles, resolve(Cwd, tok_file), oldFile)}
InitTwin ==
    /\ NoArgsCall /\ NoPromptCall
    /\ \E a \in {x \in RunArgs : tok_ai \notin Range(x)}, e \in BOOLEAN, f \in FilesBefore :
        /\ argv = [w \in Proc |-> IF w = 1 THEN a ELSE <<tok_ai>> \o a]
        /\ env = [w \in Proc |-> e]
        /\ fs = [w \in Proc |-> f]
    /\ pc = [w \in Proc |-> "main"]
    /\ runs = [w \in Proc |-> 1]
    /\ flags = [w \in Proc |-> flags0]
    /\ prompt = [w \in Proc |-> <<>>]
    /\ result = [w \in Proc |-> Null]
    /\ stdout = [w \in Proc |-> <<>>]
    /\ stderr = [w \in Proc |-> <<>>]
    /\ exitCode = [w \in Proc |-> 0]
    /\ fetches = [w \in Proc |-> 0]
    /\ reply = [w \in Proc |-> Null]
NextTwin ==
    \E w \in Proc :
        \/ MainBegin(w)
        \/ \E r \in Replies : Settle(w, r)
        \/ Fallback(w)
        \/ Render(w)
        \/ Save(w)
SpecTwin == InitTwin /\ [][NextTwin]_vars

----------------------------------------------------------------------------
\* What the properties below say of a prompt, stated on its characters.

\* s holds sub somewhere
contains(s, sub) == \E i \in 1..Len(s), j \in 0..Len(s) : j - i + 1 = Len(sub) /\ SubSeq(s, i, j) = sub
containsAny(s, subs) == \E sub \in subs : contains(s, sub)

FunctionWords ==
    {kw_function, kw_check, kw_compute, kw_calculate, kw_determine, kw_find, kw_prime,
     kw_factorial, kw_fibonacci, kw_reverse}
ComponentWords == {kw_react, kw_component, kw_jsx, kw_tsx}
ApiWords == {kw_endpoint, kw_api, kw_http, kw_express, kw_fetch}
ScriptWords == {kw_script, kw_cli, kw_command, kw_utility}

\* "kw <identifier>" stands at i: kw, blanks up to j, the identifier from j to k
explicitAt(s, kw, i, j, k) ==
    /\ i + Len(kw) < j /\ j <= k /\ k <= Len(s)
    /\ SubSeq(s, i, i + Len(kw) - 1) = kw
    /\ \A x \in (i + Len(kw))..(j - 1) : s[x] \in WhiteSpace
    /\ isIdentStart(s[j])
    /\ \A x \in j..k : isIdentChar(s[x])
    /\ (k = Len(s) \/ ~isIdentChar(s[k + 1]))
explicitFrom(s, kws, i) == \E kw \in kws, j \in i..Len(s), k \in i..Len(s) : explicitAt(s, kw, i, j, k)
hasExplicit(s, kws) == \E i \in 1..Len(s) : explicitFrom(s, kws, i)
\* the identifiers of the leftmost "kw <identifier>" (there is one at most)
explicitNames(s, kws) ==
    {SubSeq(s, j, k) : <<i, j, k>> \in
        {<<i, j, k>> \in (1..Len(s)) \X (1..Len(s)) \X (1..Len(s)) :
            /\ \E kw \in kws : explicitAt(s, kw, i, j, k)
            /\ \A h \in 1..(i - 1) : ~explicitFrom(s, kws, h)}}

\* the override names of the keywords a prompt holds
overridesOf(s) ==
    LET p == toLowerCase(s) IN
    (IF contains(p, kw_reverse) THEN {name_reverseString} ELSE {})
    \cup (IF contains(p, kw_fib) THEN {name_fibonacci} ELSE {})
    \cup (IF contains(p, kw_factorial) THEN {name_factorial} ELSE {})
    \cup (IF contains(p, kw_debounce) THEN {name_debounce} ELSE {})
    \cup (IF contains(p, kw_throttle) THEN {name_throttle} ELSE {})
    \cup (IF contains(p, kw_prime) THEN {name_isPrime} ELSE {})
OverrideNames ==
    {name_reverseString, name_fibonacci, name_factorial, name_debounce, name_throttle, name_isPrime}

----------------------------------------------------------------------------
\* Properties of the offline path (under SpecOffline).

\* C2: guessType returns one artifact type for every prompt, by the first rule
\* that matches the lowercased prompt in the order function words, component
\* words, api words, script words, else function; a prompt holding "function"
\* is a function whatever else it holds.
C2_GuessTypeFirstMatch ==
    offline # Null =>
        LET p == toLowerCase(promptIn)
            r1 == containsAny(p, FunctionWords)
            r2 == containsAny(p, ComponentWords)
            r3 == containsAny(p, ApiWords)
            r4 == containsAny(p, ScriptWords)
        IN  /\ offline.type \in {"function", "component", "api", "script"}
            /\ contains(p, kw_function) => offline.type = "function"
            /\ r1 => offline.type = "function"
            /\ (~r1 /\ r2) => offline.type = "component"
            /\ (~r1 /\ ~r2 /\ r3) => offline.type = "api"
            /\ (~r1 /\ ~r2 /\ ~r3 /\ r4) => offline.type = "script"
            /\ (~r1 /\ ~r2 /\ ~r3 /\ ~r4) => offline.type = "function"
\* a prompt that holds "function" and "react" was classified as function
C2_Witness ==
    /\ offline # Null
    /\ contains(promptIn, kw_function) /\ contains(promptIn, kw_react)
    /\ offline.type = "function"

C4_BodyByFirstKeyword ==
    offline # Null =>
        LET p == toLowerCase(promptIn)
            code == offline.result.code.text
            early == contains(p, kw_prime) \/ contains(p, kw_fib) \/ contains(p, kw_factorial)
        IN  /\ contains(p, kw_prime) =>
                /\ offline.type = "function"
                /\ code = Template(exportFunction, offline.name, primeBody)
            /\ offline.type = "function" =>
                /\ code.head = exportFunction /\ code.arg = offline.name
                /\ code.tail =
                     IF contains(p, kw_prime) THEN primeBody
                     ELSE IF contains(p, kw_fib) THEN fibonacciBody
                     ELSE IF contains(p, kw_factorial) THEN factorialBody
                     ELSE IF contains(p, kw_reverse) /\ contains(p, kw_string) THEN reverseBody
                     ELSE IF contains(p, kw_debounce) THEN debounceBody
                     ELSE stubBody
            /\ (contains(p, kw_reverse) /\ ~contains(p, kw_string) /\ ~early) =>
                code.tail \in {stubBody, debounceBody}
\* a prompt with "prime" and a later-ranked keyword got the primality body
C4_Witness ==
    /\ offline # Null
    /\ contains(toLowerCase(promptIn), kw_prime)
    /\ contains(toLowerCase(promptIn), kw_reverse)
    /\ offline.result.code.text.tail = primeBody

----------------------------------------------------------------------------
\* Properties of parseArgs (under SpecParseArgs).

RecognisedFlags == {tok_ai, tok_json, tok_help, tok_h, tok_version, tok_v}
isInlineOut(tk) == Len(tk) >= 6 /\ SubSeq(tk, 1, 6) = tok_outEq
ledByDashes(tk) == Len(tk) >= 2 /\ tk[1] = "-" /\ tk[2] = "-"
\* token i is the path of a bare --out before it: as the claim words it
\* (worded), or as the code has it (an empty token is no path)
consumedAt(args, i, worded) ==
    /\ i > 1 /\ args[i - 1] = tok_out /\ ~ledByDashes(args[i])
    /\ worded \/ args[i] # <<>>

\* the tokens of args at the positions in keep, in their order, from i on
RECURSIVE tokensAt(_, _, _)
tokensAt(args, keep, i) ==
    IF i > Len(args) THEN <<>>
    ELSE (IF i \in keep THEN <<args[i]>> ELSE <<>>) \o tokensAt(args, keep, i + 1)
\* the tokens that are no recognised flag, no consumed path and no --out that
\* consumed one
promptTokens(args, worded) ==
    tokensAt(args,
             {i \in 1..Len(args) :
                 /\ args[i] \notin RecognisedFlags
                 /\ ~isInlineOut(args[i])
                 /\ ~consumedAt(args, i, worded)
                 /\ ~(args[i] = tok_out /\ i < Len(args) /\ consumedAt(args, i + 1, worded))},
             1)
\* the path the last --out form sets
expectedOut(args, worded) ==
    LET setters == {i \in 1..Len(args) : consumedAt(args, i, worded) \/ isInlineOut(args[i])} IN
    IF setters = {} THEN Undefined
    ELSE LET i == SetMax(setters)
         IN  IF consumedAt(args, i, worded) THEN Defined(args[i])
             ELSE Defined(SubSeq(args[i], 7, Len(args[i])))
\* t is s without the white space at its two ends
isTrimOf(t, s) ==
    /\ t # <<>> => t[1] \notin WhiteSpace /\ t[Len(t)] \notin WhiteSpace
    /\ \E a \in 0..Len(s) :
        /\ a + Len(t) <= Len(s)
        /\ SubSeq(s, a + 1, a + Len(t)) = t
        /\ \A x \in (1..a) \cup ((a + Len(t) + 1)..Len(s)) : s[x] \in WhiteSpace

\* C10 as stated: the prompt is the tokens that are no recognised flag and no
\* path consumed by a bare --out, joined by single spaces; a bare --out
\* consumes the next token when it exists and does not start with "--".
C10_PromptIsJoinedTokens ==
    parsed # Null =>
        /\ parsed.prompt = join(promptTokens(argvIn, TRUE), <<" ">>)
        /\ parsed.flags.out = expectedOut(argvIn, TRUE)

\* C10 amended: the joined tokens are trimmed of white space at both ends, and
\* a bare --out consumes the next token only when it exists, is not empty and
\* does not start with "--".
C10_PromptIsTrimmedJoin ==
    parsed # Null =>
        /\ isTrimOf(parsed.prompt, join(promptTokens(argvIn, FALSE), <<" ">>))
        /\ parsed.flags.out = expectedOut(argvIn, FALSE)
\* a bare --out consumed its path, and an unknown flag went into the prompt
C10_Witness ==
    /\ parsed # Null
    /\ \E i \in 1..Len(argvIn) : consumedAt(argvIn, i, FALSE) /\ parsed.flags.out = Defined(argvIn[i])
    /\ \E i \in 1..Len(argvIn) : argvIn[i] = tok_unknown /\ ~consumedAt(argvIn, i, FALSE)
    /\ contains(parsed.prompt, tok_unknown)

----------------------------------------------------------------------------
\* Properties of a run (under Spec, C5 under SpecTwin).

\* did the run of w get past the early exits
generating(w) == ~flags[w].version /\ ~flags[w].help /\ prompt[w] # <<>>
\* a plan that is an array of strings and a code that is a string
wellFormed(o) ==
    /\ o.plan.kind = "array"
    /\ \A i \in 1..Len(o.plan.elems) : o.plan.elems[i].kind = "string"
    /\ o.code.kind = "string"
\* the object parsed out of a reply's generated text, null if there is none
objectIn(r) ==
    IF r.how # "json" THEN Null
    ELSE IF r.data.kind \notin {"array", "object"} THEN Null
    ELSE IF r.data.generated_text.kind # "string" THEN Null
    ELSE IF r.data.generated_text.span # "object" THEN Null
    ELSE r.data.generated_text.obj
savedLines(w) ==
    IF truthy(flags[w].out) THEN <<[line |-> "saved", path |-> resolve(Cwd, flags[w].out.value)]>> ELSE <<>>

\* C1: the README's example prompt, with no flags, yields 8 steps, the first
\* restating the prompt, and the primality function exported as isPrime.
C1_ExampleYieldsIsPrime ==
    \A w \in Proc :
        (pc[w] = "exited" /\ argv[w] = <<examplePrompt>>) =>
            /\ Len(result[w].plan.elems) = 8
            /\ result[w].plan.elems[1] = Str(Template("Restate goal: ", examplePrompt, ""))
            /\ result[w].code = Str(Template(exportFunction, name_isPrime, primeBody))

\* C5: without an API key a run with --ai and the run without it end alike:
\* same console output, same warnings, same files, same exit status, and no
\* request from either.
C5_AiWithoutKeyChangesNothing ==
    (\A w \in Proc : ~env[w]) =>
        /\ \A w \in Proc : fetches[w] = 0
        /\ (\A w \in Proc : pc[w] = "exited") =>
            /\ stdout[1] = stdout[2]
            /\ stderr[1] = stderr[2]
            /\ fs[1] = fs[2]
            /\ exitCode[1] = exitCode[2]
\* both runs generated, saved and ended without a key, the second under --ai
C5_Witness ==
    /\ \A w \in Proc : pc[w] = "exited" /\ ~env[w] /\ generating(w) /\ truthy(flags[w].out)
    /\ ~flags[1].ai /\ flags[2].ai
    /\ fs[2] # NoFiles /\ stderr[2] # <<>>

\* C6: a parsed object is accepted only when its plan is an array of strings
\* and its code a string; every other parsed shape gives no result.
C6_AcceptsOnlyStringPlans ==
    \A w \in Proc :
        (pc[w] = "fallback" /\ reply[w] # Null /\ objectIn(reply[w]) # Null) =>
            result[w] = IF wellFormed(objectIn(reply[w])) THEN objectIn(reply[w]) ELSE Null

\* C7: a generating run renders one PlanAndCode: the remote one as it came
\* when the one request gave a well-formed result, else the whole offline one;
\* at most one request, nothing rendered while it is awaited, exit status 0.
C7_RemoteOrOfflineInFull ==
    \A w \in Proc :
        /\ fetches[w] <= 1
        /\ pc[w] = "awaitFetch" => result[w] = Null /\ stdout[w] = <<>>
        /\ (pc[w] = "exited" /\ generating(w)) =>
            LET remote == IF reply[w] = Null THEN Null ELSE objectIn(reply[w])
                expected == IF remote # Null /\ wellFormed(remote) THEN remote
                            ELSE makeOfflinePlanAndCode(prompt[w])
            IN  /\ result[w] = expected
                /\ stdout[w] = rendering(flags[w], expected) \o savedLines(w)
                /\ fetches[w] = (IF flags[w].ai /\ env[w] THEN 1 ELSE 0)
                /\ exitCode[w] = 0

\* C8: main's first step ends the run when --version is set (version line,
\* status 0), else when --help is set or the prompt is empty (usage, status 1
\* exactly for the empty prompt); such a run issues no request, generates and
\* prints nothing else and writes no file, --out or not.
C8_EarlyExits ==
    [][\A w \in Proc :
        /\ (pc[w] = "main" /\ pc'[w] # "main" /\ (flags'[w].version \/ flags'[w].help \/ prompt'[w] = <<>>)) =>
            /\ pc'[w] = "exited"
            /\ stdout'[w] = (IF flags'[w].version THEN <<versionLine>> ELSE <<usageLine>>)
            /\ exitCode'[w] = (IF ~flags'[w].version /\ prompt'[w] = <<>> THEN 1 ELSE 0)
            /\ fetches'[w] = 0 /\ result'[w] = Null /\ stderr'[w] = <<>>
            /\ fs'[w] = fs[w]
        /\ (pc[w] = "exited" /\ pc'[w] = "exited") =>
            stdout'[w] = stdout[w] /\ fs'[w] = fs[w] /\ fetches'[w] = fetches[w]
      ]_vars
\* a run with --version, --ai, a key, --out and a prompt ended on the version
\* line alone, with no file written
C8_Witness ==
    /\ pc[1] = "exited" /\ flags[1].version /\ flags[1].ai /\ env[1]
    /\ truthy(flags[1].out) /\ prompt[1] # <<>>
    /\ stdout[1] = <<versionLine>> /\ exitCode[1] = 0 /\ fs[1] = NoFiles

\* C9: the save step of a run given --out, after the rendering is on the
\* console, leaves at the path exactly the code text of this run's result
\* (whatever was there), warns exactly when the path existed, and reports the
\* save; no step removes the file, and the first run finds no file to warn of.
C9_SaveOverwritesWithCode ==
    [][LET path == resolve(Cwd, flags[1].out.value) IN
        /\ (pc[1] = "save" /\ pc'[1] = "exited" /\ truthy(flags[1].out)) =>
            /\ fs'[1] = [q \in {path} |-> result[1].code.text]
            /\ stderr'[1] = (IF path \in DOMAIN fs[1] THEN <<[line |-> "exists", path |-> path]>> ELSE <<>>)
            /\ stdout[1] = rendering(flags[1], result[1])
            /\ stdout'[1] = stdout[1] \o <<[line |-> "saved", path |-> path]>>
        /\ ~(pc[1] = "save" /\ truthy(flags[1].out)) => fs'[1] = fs[1]
        /\ runs'[1] = 1 => stderr'[1] = <<>>
      ]_vars
\* a second run warned of the file an earlier run left and put its own code there
C9_Witness ==
    /\ pc[1] = "exited" /\ runs[1] = 2 /\ truthy(flags[1].out) /\ generating(1)
    /\ stderr[1] = <<[line |-> "exists", path |-> resolve(Cwd, tok_file)]>>
    /\ fs[1][resolve(Cwd, tok_file)] = result[1].code.text
    /\ result[1].code.text = Lit("remote code")

====
